---- MODULE Spec2Model ----
(***************************************************************************)
(* Model of package erroneous (erroneous.go): the Erroneous record, the    *)
(* five option constructors Msg, Fields, Err, Source, Depth, the           *)
(* constructor New and the accessors Error, Message, Source, Fields.       *)
(*                                                                         *)
(* Go values are modelled as follows.                                      *)
(*   - An interface value (an error, or a value stored in an ErrFields     *)
(*     map) is a record [kind, text, ptr]. kind "nil" is the nil           *)
(*     interface, "plain" an error of a foreign type whose Error() is      *)
(*     text, "own" a *Erroneous (ptr = 0 is the nil pointer, ptr > 0 an    *)
(*     index into the heap recs), "str" a string, "func" a value           *)
(*     encoding/json cannot serialise, "absent" a key that is not in the   *)
(*     map.                                                                *)
(*   - An ErrFields value is a reference: 0 is the nil map, m > 0 the map  *)
(*     whose contents are maps[m]. Two records that hold the same          *)
(*     reference share the map, as in Go.                                  *)
(*   - Strings are TLA+ strings; \o is Go's +.                             *)
(***************************************************************************)
EXTENDS Integers, Sequences, FiniteSets, TLC

\* ------------------------------------------------------------- bounds
\* Units passed to one New call.
MaxUnits == 2
\* Records the caller keeps; a record New returns beyond them is dropped.
MaxRecs == 1
\* Edits the caller makes outside New: writes through an ErrFields map and
\* units applied by hand to a record New has returned.
MaxEdits == 1
\* ErrFields maps the caller owns.
NumMaps == 1
\* Frames on the call stack of a New call, New's own frame included.
MaxFrames == 4

\* New's initial capture depth.
DefaultDepth == 2

\* ------------------------------------------------------------- values
NilV == [kind |-> "nil", text |-> "", ptr |-> 0]
Absent == [kind |-> "absent", text |-> "", ptr |-> 0]
FuncV == [kind |-> "func", text |-> "", ptr |-> 0]
StrV(s) == [kind |-> "str", text |-> s, ptr |-> 0]
PlainErr(s) == [kind |-> "plain", text |-> s, ptr |-> 0]
Own(p) == [kind |-> "own", text |-> "", ptr |-> p]

\* v.(error): the dynamic type of v implements error.
IsError(v) == v.kind \in {"plain", "own"}
\* err.(*Erroneous): the dynamic type of err is *Erroneous (a nil pointer too).
IsOwn(v) == v.kind = "own"

NilMap == 0
MapIds == 1..NumMaps
Keys == {"error", "k"}
\* encoding/json writes a map's keys in sorted order.
KeyOrder == <<"error", "k">>
EmptyMap == [k \in Keys |-> Absent]

\* The zero Erroneous with depth 2: New's builder.
Blank == [msg |-> "", err |-> NilV, fields |-> NilMap,
          file |-> "", line |-> 0, depth |-> DefaultDepth]

VARIABLES
    maps,     \* contents of the caller's ErrFields maps
    edits,    \* number of map writes and hand-applied units so far
    recs,     \* the heap: the records the caller keeps, by address
    pc,       \* "idle", "loop" (in New's for loop), "done" (New returned), "read"
    opts,     \* the units passed to the running New call
    idx,      \* number of units applied so far
    e,        \* the builder of the running New call, at address Len(recs) + 1
    cap,      \* the runtime.Caller calls New made: <<[skip, ok]>>
    ret,      \* the value New returned
    target,   \* the receiver of the last accessor call
    out       \* the result of the last accessor call

vars == <<maps, edits, recs, pc, opts, idx, e, cap, ret, target, out>>

\* ------------------------------------------------------------- rendering
\* What a call gave: the method called, whether it panicked on a nil-pointer
\* dereference, and the value returned.
NoOut == [op |-> "none", panic |-> FALSE, val |-> ""]
Returned(op, v) == [op |-> op, panic |-> FALSE, val |-> v]
Panicked(op) == [op |-> op, panic |-> TRUE, val |-> ""]

RECURSIVE ErrString(_, _, _), Message(_, _, _), ErrorText(_, _, _)

\* json.Marshal of one map value; "" stands for an UnsupportedTypeError.
MarshalValue(v) ==
    CASE v.kind = "str" -> "\"" \o v.text \o "\""
      [] v.kind = "plain" -> "{}"
      [] v.kind = "own" -> IF v.ptr = 0 THEN "null" ELSE "{}"
      [] v.kind = "nil" -> "null"
      [] OTHER -> ""

RECURSIVE MarshalEntries(_, _, _)
MarshalEntries(m, i, first) ==
    IF i > Len(KeyOrder) THEN ""
    ELSE LET k == KeyOrder[i]
         IN IF m[k].kind = "absent" THEN MarshalEntries(m, i + 1, first)
            ELSE (IF first THEN "" ELSE ",") \o "\"" \o k \o "\":"
                 \o MarshalValue(m[k]) \o MarshalEntries(m, i + 1, FALSE)

\* json.Marshal(e.fields) for a non-nil map: the bytes, or no bytes when a
\* value cannot be serialised (Error drops the error).
Marshal(m) ==
    IF \E k \in Keys : m[k].kind = "func" THEN ""
    ELSE "{" \o MarshalEntries(m, 1, TRUE) \o "}"

\* fmt.Sprintf(" [%s:%d]", file, line)
Bracket(file, line) == " [" \o file \o ":" \o ToString(line) \o "]"

\* err.Error() through the error interface; h is the heap, mp the maps.
ErrString(v, h, mp) ==
    IF v.kind = "own" THEN ErrorText(v.ptr, h, mp) ELSE v.text

\* Mutant of Message: the separator is written whether or not msg is empty.
MessageAlwaysSep(r, h, mp) ==
    IF r.err # NilV
    THEN r.msg \o ": " \o ErrString(r.err, h, mp)
    ELSE r.msg

\* (*Erroneous).Message on the record r.
Message(r, h, mp) ==
    IF r.err # NilV
    THEN (IF r.msg # "" THEN r.msg \o ": " ELSE r.msg) \o ErrString(r.err, h, mp)
    ELSE r.msg

\* Mutant of FieldsSegment: the separator is written without looking at the
\* length of the serialised data.
FieldsSegmentNoLen(r, mp) ==
    IF r.fields # NilMap THEN "  " \o Marshal(mp[r.fields]) ELSE ""

\* Mutant of FieldsSegment: a map without entries is treated like a nil map.
FieldsSegmentSkipEmpty(r, mp) ==
    IF r.fields # NilMap /\ mp[r.fields] # EmptyMap
    THEN LET data == Marshal(mp[r.fields])
         IN IF Len(data) > 0 THEN "  " \o data ELSE ""
    ELSE ""

\* The fields segment Error appends.
FieldsSegment(r, mp) ==
    IF r.fields # NilMap
    THEN LET data == Marshal(mp[r.fields])
         IN IF Len(data) > 0 THEN "  " \o data ELSE ""
    ELSE ""

\* (*Erroneous).Error on the pointer p.
ErrorText(p, h, mp) ==
    IF p = 0 THEN "unknown error"
    ELSE LET r == h[p]
             msg == Message(r, h, mp)
         IN (IF r.file # "" THEN msg \o Bracket(r.file, r.line) ELSE msg)
            \o FieldsSegment(r, mp)

\* ------------------------------------------------------------- units
\* An ErrOpts closure, by the constructor that made it and what it captured.
MsgU(t, f) == [op |-> "Msg", text |-> t, fields |-> f, err |-> NilV,
               file |-> "", line |-> 0, depth |-> 0]
FieldsU(f) == [op |-> "Fields", text |-> "", fields |-> f, err |-> NilV,
               file |-> "", line |-> 0, depth |-> 0]
ErrU(v) == [op |-> "Err", text |-> "", fields |-> NilMap, err |-> v,
            file |-> "", line |-> 0, depth |-> 0]
SourceU(f, l) == [op |-> "Source", text |-> "", fields |-> NilMap, err |-> NilV,
                  file |-> f, line |-> l, depth |-> 0]
DepthU(d) == [op |-> "Depth", text |-> "", fields |-> NilMap, err |-> NilV,
              file |-> "", line |-> 0, depth |-> d]

\* What applying a unit gives: the builder after it, and the error it returns.
Result(b, r) == [e |-> b, r |-> r]

\* The closure Err(err) returns, applied to b.
ErrApply(err, b) ==
    IF IsOwn(err) THEN Result(b, err)
    ELSE Result([b EXCEPT !.err = err], NilV)

\* Mutant of MsgApply: fields["error"] is stored as the cause without going
\* through Err.
MsgApplyDirect(msg, fields, b, mp) ==
    LET b1 == [b EXCEPT !.msg = msg]
    IN IF fields # NilMap
       THEN LET b2 == [b1 EXCEPT !.fields = fields]
                v == mp[fields]["error"]
            IN IF v.kind # "absent" /\ IsError(v)
               THEN Result([b2 EXCEPT !.err = v], NilV)
               ELSE Result(b2, NilV)
       ELSE Result(b1, NilV)

\* The closure Msg(msg, fields) returns, applied to b.
MsgApply(msg, fields, b, mp) ==
    LET b1 == [b EXCEPT !.msg = msg]
    IN IF fields # NilMap
       THEN LET b2 == [b1 EXCEPT !.fields = fields]
                v == mp[fields]["error"]
            IN IF v.kind # "absent" /\ IsError(v)
               THEN ErrApply(v, b2)
               ELSE Result(b2, NilV)
       ELSE Result(b1, NilV)

\* Mutant of FieldsApply: fields that are already set are kept.
FieldsApplyKeep(fields, b) ==
    Result(IF b.fields = NilMap THEN [b EXCEPT !.fields = fields] ELSE b, NilV)

\* The closure Fields(fields) returns, applied to b.
FieldsApply(fields, b) == Result([b EXCEPT !.fields = fields], NilV)

\* The closure Source(file, line) returns, applied to b.
SourceApply(file, line, b) ==
    Result([b EXCEPT !.file = file, !.line = line], NilV)

\* The closure Depth(depth) returns, applied to b.
DepthApply(depth, b) == Result([b EXCEPT !.depth = depth], NilV)

\* fn(e) for the unit u.
Apply(u, b, mp) ==
    CASE u.op = "Msg" -> MsgApply(u.text, u.fields, b, mp)
      [] u.op = "Fields" -> FieldsApply(u.fields, b)
      [] u.op = "Err" -> ErrApply(u.err, b)
      [] u.op = "Source" -> SourceApply(u.file, u.line, b)
      [] u.op = "Depth" -> DepthApply(u.depth, b)

\* ------------------------------------------------------------- call stack
\* The frame skip levels above runtime.Caller's caller, on a stack of n frames.
FrameFile(skip) == "frame" \o ToString(skip) \o ".go"
FrameLine(skip) == 10 * skip + 1

\* runtime.Caller(skip) called from New on a stack of n frames.
Caller(skip, n) ==
    IF skip >= 0 /\ skip < n
    THEN [ok |-> TRUE, file |-> FrameFile(skip), line |-> FrameLine(skip)]
    ELSE [ok |-> FALSE, file |-> "", line |-> 0]

\* Mutant of Capture: the caller is resolved whether or not a file is set.
CaptureAlways(b, n) ==
    LET c == Caller(b.depth, n)
    IN [e |-> IF c.ok THEN [b EXCEPT !.file = c.file, !.line = c.line] ELSE b,
        cap |-> <<[skip |-> b.depth, ok |-> c.ok]>>]

\* Mutant of Capture: the caller is resolved at the initial depth.
CaptureDefaultDepth(b, n) ==
    IF b.file = ""
    THEN LET c == Caller(DefaultDepth, n)
         IN [e |-> IF c.ok THEN [b EXCEPT !.file = c.file, !.line = c.line] ELSE b,
             cap |-> <<[skip |-> DefaultDepth, ok |-> c.ok]>>]
    ELSE [e |-> b, cap |-> <<>>]

\* New's capture step: the builder after it and the runtime.Caller calls made.
Capture(b, n) ==
    IF b.file = ""
    THEN LET c == Caller(b.depth, n)
         IN [e |-> IF c.ok THEN [b EXCEPT !.file = c.file, !.line = c.line] ELSE b,
             cap |-> <<[skip |-> b.depth, ok |-> c.ok]>>]
    ELSE [e |-> b, cap |-> <<>>]

\* ------------------------------------------------------------- inputs
Texts == {"", "failed"}
PlainErrs == {PlainErr("boom")}
\* The error values a caller can hold when n records exist.
ErrInputs(n) == {NilV} \cup PlainErrs \cup {Own(p) : p \in 0..n}
SourceInputs == {<<"", 7>>, <<"f.go", 10>>}
DepthInputs == {1, 3}
\* The values a caller stores under a key.
ValueInputs(k, n) ==
    IF k = "error" THEN (ErrInputs(n) \ {NilV}) \cup {StrV("v")} ELSE {StrV("v")}

Units(n) ==
    {MsgU(t, f) : t \in Texts, f \in {NilMap} \cup MapIds}
    \cup {FieldsU(f) : f \in {NilMap} \cup MapIds}
    \cup {ErrU(v) : v \in ErrInputs(n)}
    \cup {SourceU(s[1], s[2]) : s \in SourceInputs}
    \cup {DepthU(d) : d \in DepthInputs}

UnitSeqs(n) == UNION {[1..k -> Units(n)] : k \in 0..MaxUnits}

\* ------------------------------------------------------------- actions
Init ==
    /\ maps = [m \in MapIds |-> EmptyMap]
    /\ edits = 0
    /\ recs = <<>>
    /\ pc = "idle"
    /\ opts = <<>>
    /\ idx = 0
    /\ e = Blank
    /\ cap = <<>>
    /\ ret = NilV
    /\ target = NilV
    /\ out = NoOut

\* The caller stores v under key k of map m.
MapWrite(m, k, v) ==
    /\ pc = "idle"
    /\ edits < MaxEdits
    /\ maps' = [maps EXCEPT ![m][k] = v]
    /\ edits' = edits + 1
    /\ UNCHANGED <<recs, pc, opts, idx, e, cap, ret, target, out>>

\* New(opts...) is called: e := &Erroneous{depth: 2}.
NewBegin(us) ==
    /\ pc = "idle"
    /\ opts' = us
    /\ idx' = 0
    /\ e' = Blank
    /\ pc' = "loop"
    /\ UNCHANGED <<maps, edits, recs, cap, ret, target, out>>

\* Mutant of NewApply: a record that short-circuits New takes the message the
\* builder has by then.
NewApplyMerge ==
    /\ pc = "loop"
    /\ idx < Len(opts)
    /\ LET res == Apply(opts[idx + 1], e, maps)
       IN /\ e' = res.e
          /\ idx' = idx + 1
          /\ ret' = IF res.r # NilV THEN res.r ELSE ret
          /\ pc' = IF res.r # NilV THEN "done" ELSE "loop"
          /\ recs' = IF res.r # NilV /\ res.r.ptr > 0
                     THEN [recs EXCEPT ![res.r.ptr].msg = res.e.msg]
                     ELSE recs
    /\ UNCHANGED <<maps, edits, opts, cap, target, out>>

\* Mutant of NewApply: the loop goes on when a unit returns an error.
NewApplyNoReturn ==
    /\ pc = "loop"
    /\ idx < Len(opts)
    /\ e' = Apply(opts[idx + 1], e, maps).e
    /\ idx' = idx + 1
    /\ UNCHANGED <<maps, edits, recs, pc, opts, cap, ret, target, out>>

\* One iteration of New's loop: err := fn(e); if err != nil { return err }.
NewApply ==
    /\ pc = "loop"
    /\ idx < Len(opts)
    /\ LET res == Apply(opts[idx + 1], e, maps)
       IN /\ e' = res.e
          /\ idx' = idx + 1
          /\ ret' = IF res.r # NilV THEN res.r ELSE ret
          /\ pc' = IF res.r # NilV THEN "done" ELSE "loop"
    /\ UNCHANGED <<maps, edits, recs, opts, cap, target, out>>

\* The loop is over: New captures the caller on a stack of n frames and
\* returns e.
NewFinish(n) ==
    /\ pc = "loop"
    /\ idx = Len(opts)
    /\ LET c == Capture(e, n)
       IN /\ e' = c.e
          /\ cap' = c.cap
    /\ ret' = Own(Len(recs) + 1)
    /\ pc' = "done"
    /\ UNCHANGED <<maps, edits, recs, opts, idx, target, out>>

\* New returned its builder (and not a record it was given).
Fresh == pc \in {"done", "read"} /\ ret = Own(Len(recs) + 1)

\* The records that exist: the ones the caller keeps and the one New just made.
Heap == IF Fresh THEN Append(recs, e) ELSE recs

\* The receivers an accessor can be called on: the value New just returned,
\* or any record of the heap and the nil pointer.
Receivers == IF pc = "done" THEN {ret.ptr} ELSE 0..Len(recs)

Call(p, result) ==
    /\ pc \in {"idle", "done"}
    /\ p \in Receivers
    /\ target' = Own(p)
    /\ out' = result
    /\ pc' = "read"
    /\ UNCHANGED <<maps, edits, recs, opts, idx, e, cap, ret>>

\* Mutant of CallError: Error has no nil check and dereferences its receiver.
CallErrorDeref(p) ==
    Call(p, IF p = 0 THEN Panicked("Error")
            ELSE Returned("Error", ErrorText(p, Heap, maps)))

\* p.Error()
CallError(p) == Call(p, Returned("Error", ErrorText(p, Heap, maps)))

\* p.Message(); a nil receiver is dereferenced.
CallMessage(p) ==
    Call(p, IF p = 0 THEN Panicked("Message")
            ELSE Returned("Message", Message(Heap[p], Heap, maps)))

\* p.Source()
CallSource(p) ==
    Call(p, IF p = 0 THEN Panicked("Source")
            ELSE Returned("Source", <<Heap[p].file, Heap[p].line>>))

\* p.Fields()
CallFields(p) ==
    Call(p, IF p = 0 THEN Panicked("Fields")
            ELSE Returned("Fields", Heap[p].fields))

\* The caller applies a unit by hand to a record New has returned: u(p).
DirectApply(p, u) ==
    /\ pc = "idle"
    /\ edits < MaxEdits
    /\ p \in 1..Len(recs)
    /\ LET res == Apply(u, recs[p], maps)
       IN /\ recs' = [recs EXCEPT ![p] = res.e]
          /\ out' = Returned("Apply", res.r)
    /\ target' = Own(p)
    /\ edits' = edits + 1
    /\ pc' = "read"
    /\ UNCHANGED <<maps, opts, idx, e, cap, ret>>

\* The caller goes on after New or an accessor has returned; it keeps the
\* record New made while it holds fewer than MaxRecs, and drops it otherwise.
Resume ==
    /\ pc \in {"done", "read"}
    /\ pc' = "idle"
    /\ recs' = IF Fresh /\ Len(recs) < MaxRecs THEN Append(recs, e) ELSE recs
    /\ opts' = <<>>
    /\ idx' = 0
    /\ e' = Blank
    /\ cap' = <<>>
    /\ ret' = NilV
    /\ target' = NilV
    /\ out' = NoOut
    /\ UNCHANGED <<maps, edits>>

Next ==
    \/ \E m \in MapIds, k \in Keys : \E v \in ValueInputs(k, Len(recs)) : MapWrite(m, k, v)
    \/ \E us \in UnitSeqs(Len(recs)) : NewBegin(us)
    \/ NewApply
    \/ \E n \in 3..MaxFrames : NewFinish(n)
    \/ \E p \in 0..Len(Heap) : CallError(p)
    \/ \E p \in 0..Len(Heap) : CallMessage(p)
    \/ \E p \in 0..Len(Heap) : CallSource(p)
    \/ \E p \in 0..Len(Heap) : CallFields(p)
    \/ \E p \in 1..Len(recs), u \in Units(Len(recs)) : DirectApply(p, u)
    \/ Resume

Spec == Init /\ [][Next]_vars

\* ------------------------------------------------------------- rendering alone
\* The records and maps the accessors are exercised on: every combination of
\* slot values New can produce from the inputs below.
RenderSources == {<<"", 0>>, <<"f.go", 10>>}
RenderRecords ==
    {[msg |-> t, err |-> c, fields |-> f, file |-> s[1], line |-> s[2],
      depth |-> DefaultDepth] :
        t \in Texts, c \in {NilV} \cup PlainErrs, f \in {NilMap} \cup MapIds,
        s \in RenderSources}
RenderMaps ==
    {[k \in Keys |-> IF k = "error" THEN ve ELSE vk] :
        ve \in {Absent, StrV("v"), Own(0)} \cup PlainErrs,
        vk \in {Absent, StrV("v"), FuncV}}

InitRender ==
    /\ maps \in [MapIds -> RenderMaps]
    /\ edits = MaxEdits
    /\ recs \in [1..2 -> RenderRecords]
    /\ pc = "idle"
    /\ opts = <<>>
    /\ idx = 0
    /\ e = Blank
    /\ cap = <<>>
    /\ ret = NilV
    /\ target = NilV
    /\ out = NoOut

NextRender ==
    \/ \E p \in 0..Len(Heap) : CallError(p)
    \/ \E p \in 0..Len(Heap) : CallMessage(p)
    \/ \E p \in 0..Len(Heap) : CallSource(p)
    \/ \E p \in 0..Len(Heap) : CallFields(p)
    \/ Resume

SpecRender == InitRender /\ [][NextRender]_vars

\* ------------------------------------------------------------- claims
\* A unit short-circuits New when it is Err(e1), or Msg(text, fields) with
\* fields["error"] = e1, for e1 a *Erroneous.
Given(u, mp) ==
    CASE u.op = "Err" -> u.err
      [] u.op = "Msg" /\ u.fields # NilMap -> mp[u.fields]["error"]
      [] OTHER -> Absent
ShortCircuits(u, mp) == Given(u, mp).kind = "own"
\* The first short-circuiting unit of us, 0 if there is none.
FirstShort(us, mp) ==
    LET S == {i \in 1..Len(us) : ShortCircuits(us[i], mp)}
    IN IF S = {} THEN 0 ELSE CHOOSE i \in S : \A j \in S : i <= j

\* C1: when some unit of the sequence passed to New is Err(e1), or
\* Msg(text, fields) with fields["error"] = e1, for e1 a record of the
\* library's kind, New returns exactly e1, having applied no unit after the
\* first such unit and without running the capture step, and no slot of any
\* existing record changes during the call.
C1_ShortCircuitReturnsGiven ==
    /\ [](pc = "done" /\ FirstShort(opts, maps) > 0 =>
            /\ ret = Given(opts[FirstShort(opts, maps)], maps)
            /\ idx = FirstShort(opts, maps)
            /\ cap = <<>>)
    /\ [][pc' \in {"loop", "done"} => recs' = recs /\ maps' = maps]_vars

C1_Witness ==
    /\ pc = "done"
    /\ FirstShort(opts, maps) = 1
    /\ Len(opts) = 2
    /\ ret = Own(1)
    /\ idx = 1

\* C7: the cause slot of the builder, at every point of New's loop and when
\* New returns, and of every record the caller holds, is absent or an error
\* that is not a *Erroneous.
C7_NoNestedRecords ==
    /\ \A i \in 1..Len(recs) : ~IsOwn(recs[i].err)
    /\ ~IsOwn(e.err)

C7_Witness ==
    /\ pc = "done"
    /\ idx = 2
    /\ opts[1].op = "Err" /\ opts[1].err.kind = "plain"
    /\ opts[2].op = "Msg" /\ ShortCircuits(opts[2], maps)
    /\ e.err = opts[1].err
    /\ e.fields = opts[2].fields

\* C9: Error() called on a nil *Erroneous returns "unknown error" and does
\* not panic, also when the nil pointer is what New returned for a unit
\* Err(nil pointer).
C9_NilErrorText ==
    pc = "read" /\ out.op = "Error" /\ target = Own(0) =>
        ~out.panic /\ out.val = "unknown error"

C9_Witness ==
    /\ pc = "read"
    /\ out.op = "Error"
    /\ target = Own(0)
    /\ ret = Own(0)
    /\ \E i \in 1..Len(opts) : opts[i] = ErrU(Own(0))
    /\ out.val = "unknown error"

\* What the claims say a unit writes: the slots it touches and the values.
\* Msg touches the message, the fields when its map is not nil, and the
\* cause when that map holds an error under "error"; Fields the fields; Err
\* the cause; Source the location; Depth the capture depth.
Touches(u, slot, mp) ==
    CASE slot = "msg" -> u.op = "Msg"
      [] slot = "fields" -> u.op = "Fields" \/ (u.op = "Msg" /\ u.fields # NilMap)
      [] slot = "err" -> u.op = "Err" \/ (u.op = "Msg" /\ IsError(Given(u, mp)))
      [] slot = "source" -> u.op = "Source"
      [] slot = "depth" -> u.op = "Depth"
Written(u, slot, mp) ==
    CASE slot = "msg" -> u.text
      [] slot = "fields" -> u.fields
      [] slot = "err" -> Given(u, mp)
      [] slot = "source" -> <<u.file, u.line>>
      [] slot = "depth" -> u.depth
\* The value the last unit of us touching slot writes, or dflt if none does.
LastWrite(us, slot, mp, dflt) ==
    LET S == {i \in 1..Len(us) : Touches(us[i], slot, mp)}
    IN IF S = {} THEN dflt
       ELSE Written(us[CHOOSE i \in S : \A j \in S : j <= i], slot, mp)

\* New ran every unit of opts and returned its builder.
Built == pc = "done" /\ ret = Own(Len(recs) + 1) /\ FirstShort(opts, maps) = 0

\* text + ": " + cause text, without the separator when text is empty.
Joined(text, cause) ==
    IF cause = NilV THEN text
    ELSE IF text = "" THEN cause.text
    ELSE text \o ": " \o cause.text

\* C2: New(Msg(text, fields)) with fields["error"] a plain error w returns a
\* record with message text, fields fields and cause w, whose Message() is
\* text + ": " + w.Error(), or w.Error() alone when text is empty; a Msg unit
\* whose fields are nil, or hold no error under "error", leaves the cause as
\* it was, and Message() is then text joined with that earlier cause.
C2_MsgPromotesPlainError ==
    /\ [](Built /\ Len(opts) = 1 /\ opts[1].op = "Msg"
            /\ Given(opts[1], maps).kind = "plain" =>
            /\ e.msg = opts[1].text
            /\ e.fields = opts[1].fields
            /\ e.err = maps[opts[1].fields]["error"]
            /\ Message(e, Heap, maps)
                 = (IF opts[1].text = "" THEN e.err.text
                    ELSE opts[1].text \o ": " \o e.err.text))
    /\ [][pc = "loop" /\ idx' = idx + 1 /\ opts[idx'].op = "Msg"
            /\ ~IsError(Given(opts[idx'], maps)) =>
            /\ e'.err = e.err
            /\ Message(e', recs, maps) = Joined(opts[idx'].text, e.err)]_vars

C2_Witness ==
    /\ Built
    /\ opts = <<MsgU("", 1)>>
    /\ maps[1]["error"] = PlainErr("boom")
    /\ e.err = PlainErr("boom")
    /\ Message(e, Heap, maps) = "boom"

\* C4 as claimed: every slot of the record New built, the location included,
\* holds what the last unit touching it wrote, or its default.
C4_Claimed ==
    Built =>
        /\ e.msg = LastWrite(opts, "msg", maps, "")
        /\ e.err = LastWrite(opts, "err", maps, NilV)
        /\ e.fields = LastWrite(opts, "fields", maps, NilMap)
        /\ e.depth = LastWrite(opts, "depth", maps, DefaultDepth)
        /\ <<e.file, e.line>> = LastWrite(opts, "source", maps, <<"", 0>>)

\* C4: message, cause, fields and capture depth of the record New built hold
\* what the last unit touching the slot wrote, or the default; so does the
\* location, unless the file so written is empty and the capture step
\* resolved the caller, and then the location is the resolved one.
C4_LastWriteWins ==
    Built =>
        /\ e.msg = LastWrite(opts, "msg", maps, "")
        /\ e.err = LastWrite(opts, "err", maps, NilV)
        /\ e.fields = LastWrite(opts, "fields", maps, NilMap)
        /\ e.depth = LastWrite(opts, "depth", maps, DefaultDepth)
        /\ LET src == LastWrite(opts, "source", maps, <<"", 0>>)
           IN IF src[1] = "" /\ cap # <<>> /\ cap[1].ok
              THEN <<e.file, e.line>> = <<FrameFile(e.depth), FrameLine(e.depth)>>
              ELSE <<e.file, e.line>> = src

C4_Witness ==
    /\ Built
    /\ Len(opts) = 2
    /\ opts[1].op = "Msg" /\ opts[1].text # "" /\ opts[1].fields # NilMap
    /\ opts[2].op = "Fields" /\ opts[2].fields # opts[1].fields
    /\ e.msg = opts[1].text
    /\ e.fields = opts[2].fields

\* The call New(opts...) built a record and the caller then called Source()
\* on it.
SourceRead ==
    /\ pc = "read"
    /\ out.op = "Source"
    /\ ret = Own(Len(recs) + 1)
    /\ target = ret
    /\ FirstShort(opts, maps) = 0
HasSource(us) == \E i \in 1..Len(us) : us[i].op = "Source"

\* C5 as claimed: after a call with a Source unit, Source() is what the last
\* Source unit was given, whatever the file and the line.
C5_Claimed ==
    SourceRead /\ HasSource(opts) =>
        ~out.panic /\ out.val = LastWrite(opts, "source", maps, <<"", 0>>)

\* C5: after a call whose last Source unit was given a non-empty file,
\* Source() is the (file, line) of that unit, whatever Depth units the call
\* holds, and runtime.Caller was not called.
C5_SourceSuppressesCapture ==
    SourceRead /\ HasSource(opts)
        /\ LastWrite(opts, "source", maps, <<"", 0>>)[1] # "" =>
        /\ ~out.panic
        /\ out.val = LastWrite(opts, "source", maps, <<"", 0>>)
        /\ cap = <<>>

C5_Witness ==
    /\ SourceRead
    /\ opts = <<SourceU("f.go", 10), DepthU(3)>>
    /\ out.val = <<"f.go", 10>>
    /\ cap = <<>>

\* The units of opts all ran and left the builder's file empty.
Capturing == Built /\ LastWrite(opts, "source", maps, <<"", 0>>)[1] = ""

\* C10 as claimed: with the file still empty after the units, New calls
\* runtime.Caller once, at the depth the last Depth unit set (2 without one);
\* on success the location is the resolved one, on failure file and line are
\* empty and zero; New returns the record either way.
C10_Claimed ==
    Capturing =>
        /\ Len(cap) = 1
        /\ cap[1].skip = LastWrite(opts, "depth", maps, DefaultDepth)
        /\ cap[1].ok =>
             <<e.file, e.line>> = <<FrameFile(cap[1].skip), FrameLine(cap[1].skip)>>
        /\ ~cap[1].ok => <<e.file, e.line>> = <<"", 0>>
        /\ ret.kind = "own" /\ ret.ptr > 0

\* C10: as claimed, but on failure the location is left as the units wrote
\* it: the file empty, the line the one the last Source unit gave (zero
\* without a Source unit).
C10_CaptureOnceAtDepth ==
    Capturing =>
        /\ Len(cap) = 1
        /\ cap[1].skip = LastWrite(opts, "depth", maps, DefaultDepth)
        /\ cap[1].ok =>
             <<e.file, e.line>> = <<FrameFile(cap[1].skip), FrameLine(cap[1].skip)>>
        /\ ~cap[1].ok =>
             /\ e.file = ""
             /\ e.line = LastWrite(opts, "source", maps, <<"", 0>>)[2]
        /\ ret.kind = "own" /\ ret.ptr > 0

C10_Witness ==
    /\ Capturing
    /\ \E i \in 1..Len(opts) : opts[i].op = "Depth"
    /\ Len(cap) = 1
    /\ ~cap[1].ok
    /\ e.file = ""
    /\ ret = Own(Len(recs) + 1)

\* What a caller can observe of the record at address i: its slots, and the
\* contents of the map its fields slot refers to.
Observed(h, mp, i) ==
    [slots |-> h[i], contents |-> IF h[i].fields = NilMap THEN EmptyMap
                                  ELSE mp[h[i].fields]]
\* No record that exists before and after the step changes in it.
RecordsKept ==
    \A i \in 1..Len(Heap) :
        i <= Len(Heap') => Observed(Heap', maps', i) = Observed(Heap, maps, i)

\* C6 as claimed: no step changes a record New has returned.
C6_Claimed == [][RecordsKept]_vars

\* C6: the accessors and New calls (also one that is given the record in
\* Err or under fields["error"]) change no record New has returned; a unit
\* applied by hand to the record and a write through its map are the steps
\* that do.
C6_ReadsAndNewKeepRecords == [][edits' = edits => RecordsKept]_vars

C6_Witness ==
    /\ pc = "read"
    /\ target = Own(1)
    /\ out.op = "Fields"
    /\ ~out.panic
    /\ out.val # NilMap
    /\ Len(recs) = 1

\* C3: Error() on a record is Message(), then " [file:line]" exactly when the
\* file is not empty, then two spaces and the serialised fields exactly when
\* the fields are not nil and serialise to a non-empty text (nothing, and no
\* panic, when serialisation fails); Message() is the message joined with
\* the cause and nothing else.
C3_ErrorLayout ==
    pc = "read" /\ target.ptr > 0 =>
        LET r == Heap[target.ptr]
            loc == IF r.file # ""
                   THEN " [" \o r.file \o ":" \o ToString(r.line) \o "]" ELSE ""
            seg == IF r.fields # NilMap /\ Marshal(maps[r.fields]) # ""
                   THEN "  " \o Marshal(maps[r.fields]) ELSE ""
        IN /\ out.op = "Message" => ~out.panic /\ out.val = Joined(r.msg, r.err)
           /\ out.op = "Error" =>
                ~out.panic /\ out.val = Joined(r.msg, r.err) \o loc \o seg

C3_Witness ==
    /\ pc = "read"
    /\ out.op = "Error"
    /\ target.ptr > 0
    /\ Heap[target.ptr].msg = "failed"
    /\ Heap[target.ptr].err = NilV
    /\ out.val = "failed [f.go:10]  {\"k\":\"v\"}"

\* Record p has a map without entries, record q no map, and they agree on
\* message, cause and location.
NilEmptyPair(p, q) ==
    /\ Heap[p].fields # NilMap
    /\ maps[Heap[p].fields] = EmptyMap
    /\ Heap[q].fields = NilMap
    /\ Heap[p].msg = Heap[q].msg
    /\ Heap[p].err = Heap[q].err
    /\ Heap[p].file = Heap[q].file
    /\ Heap[p].line = Heap[q].line

\* C8 as claimed: Error() on a record with an empty map is the text Error()
\* gives for the same record with a nil map.
C8_Claimed ==
    pc = "read" /\ out.op = "Error" /\ target.ptr > 0 =>
        \A q \in 1..Len(Heap) :
            NilEmptyPair(target.ptr, q) => out.val = ErrorText(q, Heap, maps)

\* C8: Error() on a record with an empty map is the text Error() gives for
\* the same record with a nil map followed by "  {}": the empty map is
\* rendered, the nil map is not; and Fields() gives the empty map for the
\* one and nil for the other.
C8_EmptyFieldsRendered ==
    pc = "read" /\ target.ptr > 0 /\ ~out.panic =>
        \A q \in 1..Len(Heap) :
            NilEmptyPair(target.ptr, q) =>
                /\ out.op = "Error" =>
                     out.val = ErrorText(q, Heap, maps) \o "  {}"
                /\ out.op = "Fields" =>
                     out.val # NilMap /\ Heap[q].fields = NilMap

C8_Witness ==
    /\ pc = "read"
    /\ out.op = "Error"
    /\ target.ptr > 0
    /\ \E q \in 1..Len(Heap) : NilEmptyPair(target.ptr, q)
    /\ out.val = "failed: boom [f.go:10]  {}"

====
